---- MODULE Spec2Model ----
(***************************************************************************)
(* Model of scripts/coverage-report.py: the LCOV trace parser (parse_lcov), *)
(* the coverage ratio (calculate_coverage), the two renderers (print_report,*)
(* print_json) and the CI gate of main.                                     *)
(*                                                                          *)
(* Text is modelled as sequences of one-character strings, so that Python's *)
(* `in` (substring containment), str.startswith and int() are computed on   *)
(* characters.  Coverage percentages are kept as exact fractions num/den    *)
(* with den > 0; for the line counts of this model Python's float           *)
(* (hit / lines) * 100 compares with the integer targets exactly as the     *)
(* fraction does.                                                           *)
(***************************************************************************)
EXTENDS Integers, Sequences, FiniteSets, TLC

(***************************************************************************)
(* Bounds of the model.                                                     *)
(***************************************************************************)
\* number of file blocks (text after an 'SF:' marker) a trace holds at most
MaxBlocks == 2
\* largest LF / LH value written in a trace
MaxCount == 2
\* number of directories in the paths of the path-classification traces
MaxDepth == 2

(***************************************************************************)
(* Text.                                                                    *)
(***************************************************************************)
Chars ==
    [ domain       |-> <<"d","o","m","a","i","n">>,
      data         |-> <<"d","a","t","a">>,
      application  |-> <<"a","p","p","l","i","c","a","t","i","o","n">>,
      presentation |-> <<"p","r","e","s","e","n","t","a","t","i","o","n">>,
      services     |-> <<"s","e","r","v","i","c","e","s">>,
      core         |-> <<"c","o","r","e">>,
      lib          |-> <<"l","i","b">>,
      userdata     |-> <<"u","s","e","r","d","a","t","a">>,
      foo          |-> <<"f","o","o">>,
      dart         |-> <<".","d","a","r","t">>,
      g_dart       |-> <<".","g",".","d","a","r","t">>,
      freezed_dart |-> <<".","f","r","e","e","z","e","d",".","d","a","r","t">>,
      slash        |-> <<"/">> ]

\* Python: sub in s
Contains(sub, s) ==
    \E k \in 0..(Len(s) - Len(sub)) :
        /\ s[k + 1] = sub[1]
        /\ SubSeq(s, k + 1, k + Len(sub)) = sub

Digits == <<"0","1","2","3","4","5","6","7","8","9">>

DigitValue(c) == (CHOOSE k \in 1..Len(Digits) : Digits[k] = c) - 1

IsDigit(c) == \E k \in 1..Len(Digits) : Digits[k] = c

\* the decimal numeral of n, as a trace writes it
RECURSIVE Decimal(_)
Decimal(n) ==
    IF n < Len(Digits) THEN <<Digits[n + 1]>>
    ELSE Decimal(n \div Len(Digits)) \o <<Digits[(n % Len(Digits)) + 1]>>

\* Python: line.startswith(prefix)
StartsWith(line, prefix) ==
    /\ Len(line) >= Len(prefix)
    /\ SubSeq(line, 1, Len(prefix)) = prefix

\* position of the first c in s, or Len(s) + 1 when s holds no c
IndexOf(c, s) ==
    IF \E k \in 1..Len(s) : s[k] = c
    THEN CHOOSE k \in 1..Len(s) : s[k] = c /\ \A j \in 1..(k - 1) : s[j] # c
    ELSE Len(s) + 1

\* Python: line.split(':')[1], for a line that holds a ':'
SplitColon1(line) ==
    LET rest == SubSeq(line, IndexOf(":", line) + 1, Len(line))
    IN  SubSeq(rest, 1, IndexOf(":", rest) - 1)

\* Python: int(text) returns (TRUE) or raises ValueError (FALSE)
IntParses(text) ==
    /\ Len(text) > 0
    /\ \A k \in 1..Len(text) : IsDigit(text[k])

\* Python: the value int(text) returns
RECURSIVE IntValue(_)
IntValue(text) ==
    IF Len(text) = 0 THEN 0
    ELSE IntValue(SubSeq(text, 1, Len(text) - 1)) * Len(Digits)
            + DigitValue(text[Len(text)])

LFPrefix == <<"L","F",":">>
LHPrefix == <<"L","H",":">>

(***************************************************************************)
(* Fixed tables of the program.                                             *)
(***************************************************************************)
Layers == <<"domain", "data", "application", "presentation", "services",
            "core", "other">>

LayerSet == {Layers[k] : k \in 1..Len(Layers)}

Buckets == {"total", "generated"} \cup LayerSet

TARGETS ==
    [ overall |-> 80, domain |-> 95, data |-> 90, application |-> 85,
      presentation |-> 70, services |-> 80, core |-> 80 ]

DefaultTarget == 80

\* Python: TARGETS.get(layer, 80)
TargetOf(layer) ==
    IF layer \in DOMAIN TARGETS THEN TARGETS[layer] ELSE DefaultTarget

WarnBand == 10

\* the path-segment marker '/<name>/'
Marker(name) == Chars.slash \o Chars[name] \o Chars.slash

ZeroResults == [b \in Buckets |-> [lines |-> 0, hit |-> 0]]

(***************************************************************************)
(* Traces: the inputs the model draws.  A file block is the list of lines   *)
(* file_block.split('\n') yields; its first line is the path.               *)
(***************************************************************************)
RECURSIVE JoinDirs(_)
JoinDirs(dirs) ==
    IF dirs = <<>> THEN <<>>
    ELSE Chars[Head(dirs)] \o Chars.slash \o JoinDirs(Tail(dirs))

\* the path 'lib/<dir>/.../<dir>/foo<ext>'
Path(dirs, ext) ==
    Chars.lib \o Chars.slash \o JoinDirs(dirs) \o Chars.foo \o Chars[ext]

Extensions == {"dart", "g_dart", "freezed_dart"}

\* the layer directories, and a directory whose name ends in a layer's name
DirNames == (LayerSet \ {"other"}) \cup {"userdata"}

\* one path for each bucket, and a generated file inside a layer directory
ReportPaths ==
    {Path(<<d>>, "dart") : d \in LayerSet \ {"other"}}
        \cup {Path(<<>>, "dart"), Path(<<>>, "g_dart"),
              Path(<<"domain">>, "freezed_dart")}

\* every path of at most MaxDepth directories below lib
ClassifyPaths ==
    {Path(dirs, ext) :
        dirs \in UNION {[1..k -> DirNames] : k \in 0..MaxDepth},
        ext \in Extensions}

OtherLine == <<"D","A",":","1",",","1">>

\* the record lines of a block: lfs and lhs are the texts after 'LF:' and
\* 'LH:', each given for a record that is present
RecordLines(lfs, lhs) ==
    <<OtherLine>> \o [k \in 1..Len(lfs) |-> LFPrefix \o lfs[k]]
                  \o [k \in 1..Len(lhs) |-> LHPrefix \o lhs[k]]

BadText == <<"x">>

\* well-formed records, 0 <= LH <= LF
WellFormedPairs ==
    {<<(<<Decimal(p[1])>>), (<<Decimal(p[2])>>)>> :
        p \in {q \in (0..MaxCount) \X (0..MaxCount) : q[2] <= q[1]}}

\* LH above LF; a record missing, empty or not a number; LF given twice
MalformedPairs ==
    { <<(<<Decimal(0)>>), (<<Decimal(1)>>)>>,
      <<(<<Decimal(1)>>), (<<Decimal(MaxCount)>>)>>,
      <<(<<>>), (<<>>)>>,
      <<(<<>>), (<<Decimal(1)>>)>>,
      <<(<<Decimal(1)>>), (<<>>)>>,
      <<(<<>>), (<<BadText>>)>>,
      <<(<<BadText>>), (<<>>)>>,
      <<(<<BadText>>), (<<Decimal(1)>>)>>,
      <<(<<Decimal(1)>>), (<<(<<>>)>>)>>,
      <<(<<Decimal(1), Decimal(0)>>), (<<Decimal(1)>>)>> }

FieldPairs == WellFormedPairs \cup MalformedPairs

Blocks ==
    {<<path>> \o RecordLines(f[1], f[2]) : path \in ReportPaths, f \in FieldPairs}

ClassifyFieldPairs ==
    { <<(<<Decimal(MaxCount)>>), (<<Decimal(1)>>)>>,
      <<(<<>>), (<<Decimal(1)>>)>>,
      <<(<<Decimal(MaxCount)>>), (<<>>)>>,
      <<(<<>>), (<<BadText>>)>> }

ClassifyBlocks ==
    {<<path>> \o RecordLines(f[1], f[2]) :
        path \in ClassifyPaths, f \in ClassifyFieldPairs}

\* files[0]: the text before the first 'SF:'; empty, or a block without 'SF:'
Preambles ==
    { <<(<<>>)>>,
      <<Path(<<"domain">>, "dart")>>
          \o RecordLines(<<Decimal(1)>>, <<Decimal(1)>>) }

\* the loop variable file_block outside an iteration
NoBlock == <<>>

Flags == {"--json", "--ci"}

(***************************************************************************)
(* State.                                                                   *)
(***************************************************************************)
VARIABLES
    exists,       \* os.path.exists('coverage/lcov.info')
    readable,     \* open() and read() of the trace file succeed
    argv,         \* the flags of sys.argv
    pc,           \* position of the run
    i,            \* index in files of the element the loop takes next
    file_block,   \* the block of the current iteration
    results,      \* bucket -> [lines, hit]
    report,       \* what the renderer printed
    overall_cov,  \* the renderer's return value
    ci_message,   \* the line the gate printed
    exit_code,    \* <<>> while running, <<code>> once the process has ended
    visited       \* the positions the run has been in

vars == <<exists, readable, argv, pc, i, file_block, results,
          report, overall_cov, ci_message, exit_code, visited>>

\* files[1:]
FirstBlock == 1

NoReport == [kind |-> "none"]

NoCoverage == [num |-> 0, den |-> 1]

Goto(p) ==
    /\ pc' = p
    /\ visited' = visited \cup {p}

Init ==
    /\ exists \in BOOLEAN
    /\ readable \in {r \in BOOLEAN : r => exists}
    /\ argv \in SUBSET Flags
    /\ pc = "main"
    /\ i = 0
    /\ file_block = NoBlock
    /\ results = ZeroResults
    /\ report = NoReport
    /\ overall_cov = NoCoverage
    /\ ci_message = "none"
    /\ exit_code = <<>>
    /\ visited = {"main"}

(***************************************************************************)
(* parse_lcov                                                               *)
(***************************************************************************)
\* the existence check left out: open() is reached whatever the path holds
TraceMissingUnchecked == FALSE

\* line 31
TraceMissing == ~exists

\* lines 31-51: the existence check, open and read, split and the zeroed table
ParseLcovOpen ==
    /\ pc = "main"
    /\ IF TraceMissing
       THEN /\ Goto("exited")
            /\ exit_code' = <<1>>
            /\ UNCHANGED <<i, results>>
       ELSE IF ~readable
       THEN /\ Goto("crashed")
            /\ exit_code' = <<1>>
            /\ UNCHANGED <<i, results>>
       ELSE /\ Goto("loop")
            /\ i' = FirstBlock
            /\ results' = ZeroResults
            /\ UNCHANGED exit_code
    /\ UNCHANGED <<exists, readable, argv, file_block, report, overall_cov,
                   ci_message>>

\* line 53: the loop takes the next element of files; files[0] is the text
\* before the first 'SF:', the later elements are the file blocks
Fetch(blocks) ==
    /\ pc = "loop"
    /\ i <= MaxBlocks
    /\ \E b \in (IF i = 0 THEN Preambles ELSE blocks) : file_block' = b
    /\ i' = i + 1
    /\ Goto("body")
    /\ UNCHANGED <<exists, readable, argv, results, report,
                   overall_cov, ci_message, exit_code>>

FetchBlock == Fetch(Blocks)

FetchClassifyBlock == Fetch(ClassifyBlocks)

IsLF(l) == StartsWith(l, LFPrefix)

IsLH(l) == StartsWith(l, LHPrefix)

\* only the '.g.dart' marker is tested
IsGeneratedOnlyG(filename) == Contains(Chars.g_dart, filename)

\* line 65
IsGenerated(filename) ==
    Contains(Chars.g_dart, filename) \/ Contains(Chars.freezed_dart, filename)

\* the chain with its first two tests in the other order
LayerOfDataFirst(filename) ==
    IF Contains(Marker("data"), filename) THEN "data"
    ELSE IF Contains(Marker("domain"), filename) THEN "domain"
    ELSE IF Contains(Marker("application"), filename) THEN "application"
    ELSE IF Contains(Marker("presentation"), filename) THEN "presentation"
    ELSE IF Contains(Marker("services"), filename) THEN "services"
    ELSE IF Contains(Marker("core"), filename) THEN "core"
    ELSE "other"

\* lines 75-95: the if/elif chain
LayerOf(filename) ==
    IF Contains(Marker("domain"), filename) THEN "domain"
    ELSE IF Contains(Marker("data"), filename) THEN "data"
    ELSE IF Contains(Marker("application"), filename) THEN "application"
    ELSE IF Contains(Marker("presentation"), filename) THEN "presentation"
    ELSE IF Contains(Marker("services"), filename) THEN "services"
    ELSE IF Contains(Marker("core"), filename) THEN "core"
    ELSE "other"

Add(res, bucket, lf, lh) ==
    [res EXCEPT ![bucket] = [lines |-> @.lines + lf, hit |-> @.hit + lh]]

\* the total taken before the generated test
AggregateTotalFirst(res, filename, lf, lh) ==
    IF Contains(Chars.g_dart, filename) \/ Contains(Chars.freezed_dart, filename)
    THEN Add(Add(res, "total", lf, lh), "generated", lf, lh)
    ELSE Add(Add(res, "total", lf, lh),
             IF Contains(Marker("domain"), filename) THEN "domain" ELSE "other",
             lf, lh)

\* lines 67-95
Aggregate(res, filename, lf, lh) ==
    IF IsGenerated(filename)
    THEN Add(res, "generated", lf, lh)
    ELSE Add(Add(res, "total", lf, lh), LayerOf(filename), lf, lh)

\* a missing record read as 0 instead of skipping the block
ParseBodyMissingAsZero(res, lines) ==
    LET filename == IF lines # <<>> THEN lines[1] ELSE <<>>
        lf_match == SelectSeq(lines, IsLF)
        lh_match == SelectSeq(lines, IsLH)
        lf_text  == IF lf_match # <<>> THEN SplitColon1(lf_match[1]) ELSE <<"0">>
        lh_text  == IF lh_match # <<>> THEN SplitColon1(lh_match[1]) ELSE <<"0">>
    IN  IF lf_match # <<>> \/ lh_match # <<>>
        THEN IF IntParses(lf_text) /\ IntParses(lh_text)
             THEN [raised  |-> FALSE,
                   results |-> Aggregate(res, filename, IntValue(lf_text),
                                         IntValue(lh_text))]
             ELSE [raised |-> TRUE, results |-> res]
        ELSE [raised |-> FALSE, results |-> res]

\* lines 54-95: the body of the loop on the lines of one block, from the
\* table res: the table it leaves, or raised when int() raises ValueError
ParseBody(res, lines) ==
    LET filename == IF lines # <<>> THEN lines[1] ELSE <<>>
        lf_match == SelectSeq(lines, IsLF)
        lh_match == SelectSeq(lines, IsLH)
        lf_text  == SplitColon1(lf_match[1])
        lh_text  == SplitColon1(lh_match[1])
    IN  IF lf_match # <<>> /\ lh_match # <<>>
        THEN IF IntParses(lf_text) /\ IntParses(lh_text)
             THEN [raised  |-> FALSE,
                   results |-> Aggregate(res, filename, IntValue(lf_text),
                                         IntValue(lh_text))]
             ELSE [raised |-> TRUE, results |-> res]
        ELSE [raised |-> FALSE, results |-> res]

\* lines 54-95: one iteration of the loop; nothing catches the ValueError
ParseBlock ==
    /\ pc = "body"
    /\ LET body == ParseBody(results, file_block)
       IN  IF body.raised
           THEN /\ Goto("crashed")
                /\ exit_code' = <<1>>
                /\ UNCHANGED <<results, file_block>>
           ELSE /\ Goto("loop")
                /\ results' = body.results
                /\ file_block' = NoBlock
                /\ UNCHANGED exit_code
    /\ UNCHANGED <<exists, readable, argv, i, report, overall_cov,
                   ci_message>>

\* line 97: files is exhausted
ParseLcovReturn ==
    /\ pc = "loop"
    /\ Goto("render")
    /\ UNCHANGED <<exists, readable, argv, i, file_block, results,
                   report, overall_cov, ci_message, exit_code>>

(***************************************************************************)
(* calculate_coverage, print_report, print_json                             *)
(***************************************************************************)
\* lines 100-104: the percentage hit / lines * 100, as the fraction num / den
calculate_coverage(data) ==
    IF data.lines = 0 THEN [num |-> 0, den |-> 1]
    ELSE [num |-> 100 * data.hit, den |-> data.lines]

\* cov >= target and cov < target, for a fraction with den > 0
AtLeast(cov, target) == cov.num >= target * cov.den

Below(cov, target) == cov.num < target * cov.den

\* the overall status with a WARN band, as the layers have
OverallStatusWithWarn(cov) ==
    IF AtLeast(cov, TARGETS.overall) THEN "PASS"
    ELSE IF AtLeast(cov, TARGETS.overall - WarnBand) THEN "WARN"
    ELSE "FAIL"

\* line 119
OverallStatus(cov) ==
    IF AtLeast(cov, TARGETS.overall) THEN "PASS" ELSE "FAIL"

\* the WARN band left out
LayerStatusNoWarn(cov, target) ==
    IF AtLeast(cov, target) THEN "PASS" ELSE "FAIL"

\* lines 142-147
LayerStatus(cov, target) ==
    IF AtLeast(cov, target) THEN "PASS"
    ELSE IF AtLeast(cov, target - WarnBand) THEN "WARN"
    ELSE "FAIL"

\* lines 137-148: the rows of the layer table
LayerRows(res) ==
    [layer \in {l \in LayerSet : res[l].lines > 0} |->
        [hit    |-> res[layer].hit,
         lines  |-> res[layer].lines,
         target |-> TargetOf(layer),
         status |-> LayerStatus(calculate_coverage(res[layer]), TargetOf(layer))]]

\* lines 107-153
print_report ==
    /\ pc = "render"
    /\ "--json" \notin argv
    /\ report' = [kind            |-> "text",
                  generated_lines |-> results["generated"].lines,
                  hit             |-> results["total"].hit,
                  lines           |-> results["total"].lines,
                  target          |-> TARGETS.overall,
                  status          |-> OverallStatus(calculate_coverage(results["total"])),
                  rows            |-> LayerRows(results)]
    /\ overall_cov' = calculate_coverage(results["total"])
    /\ Goto("gate")
    /\ UNCHANGED <<exists, readable, argv, i, file_block, results,
                   ci_message, exit_code>>

\* lines 169-177: the layers mapping, without the rounded 'coverage' entries
JsonLayers(res) ==
    [layer \in {l \in LayerSet : res[l].lines > 0} |->
        [hit    |-> res[layer].hit,
         lines  |-> res[layer].lines,
         target |-> TargetOf(layer)]]

\* lines 156-180
print_json ==
    /\ pc = "render"
    /\ "--json" \in argv
    /\ report' = [kind               |-> "json",
                  coverage           |-> calculate_coverage(results["total"]),
                  hit                |-> results["total"].hit,
                  lines              |-> results["total"].lines,
                  target             |-> TARGETS.overall,
                  generated_excluded |-> results["generated"].lines,
                  layers             |-> JsonLayers(results)]
    /\ overall_cov' = calculate_coverage(results["total"])
    /\ Goto("gate")
    /\ UNCHANGED <<exists, readable, argv, i, file_block, results,
                   ci_message, exit_code>>

(***************************************************************************)
(* main                                                                     *)
(***************************************************************************)
\* line 193
GateFails(cov) == Below(cov, TARGETS.overall)

\* lines 192-198, and the return of main when '--ci' is not given
Gate ==
    /\ pc = "gate"
    /\ IF "--ci" \in argv
       THEN IF GateFails(overall_cov)
            THEN /\ ci_message' = "CI FAILURE"
                 /\ exit_code' = <<1>>
            ELSE /\ ci_message' = "CI SUCCESS"
                 /\ exit_code' = <<0>>
       ELSE /\ exit_code' = <<0>>
            /\ UNCHANGED ci_message
    /\ Goto("exited")
    /\ UNCHANGED <<exists, readable, argv, i, file_block, results,
                   report, overall_cov>>

Next ==
    \/ ParseLcovOpen
    \/ FetchBlock
    \/ ParseBlock
    \/ ParseLcovReturn
    \/ print_report
    \/ print_json
    \/ Gate

Spec == Init /\ [][Next]_vars

(***************************************************************************)
(* The loop of parse_lcov alone, over traces that vary the paths.           *)
(***************************************************************************)
InitParse ==
    /\ exists = TRUE
    /\ readable = TRUE
    /\ argv = {}
    /\ pc = "loop"
    /\ i = FirstBlock
    /\ file_block = NoBlock
    /\ results = ZeroResults
    /\ report = NoReport
    /\ overall_cov = NoCoverage
    /\ ci_message = "none"
    /\ exit_code = <<>>
    /\ visited = {"main", "loop"}

NextParse ==
    \/ FetchClassifyBlock
    \/ ParseBlock

SpecParse == InitParse /\ [][NextParse]_vars

(***************************************************************************)
(* Properties.                                                              *)
(***************************************************************************)
RECURSIVE LayerSum(_, _, _)
\* the sum of a field over the first k layer buckets
LayerSum(res, field, k) ==
    IF k = 0 THEN 0 ELSE res[Layers[k]][field] + LayerSum(res, field, k - 1)

\* the first LF and LH records of a block
HasLF(block) == \E k \in 1..Len(block) : StartsWith(block[k], LFPrefix)
HasLH(block) == \E k \in 1..Len(block) : StartsWith(block[k], LHPrefix)
FirstLF(block) ==
    SplitColon1(block[CHOOSE k \in 1..Len(block) :
        /\ StartsWith(block[k], LFPrefix)
        /\ \A j \in 1..(k - 1) : ~StartsWith(block[j], LFPrefix)])
FirstLH(block) ==
    SplitColon1(block[CHOOSE k \in 1..Len(block) :
        /\ StartsWith(block[k], LHPrefix)
        /\ \A j \in 1..(k - 1) : ~StartsWith(block[j], LHPrefix)])

\* a block with an LF and an LH record, both integers
Countable(block) ==
    /\ block # NoBlock
    /\ HasLF(block) /\ HasLH(block)
    /\ IntParses(FirstLF(block)) /\ IntParses(FirstLH(block))

PathIsGenerated(path) ==
    Contains(Chars.g_dart, path) \/ Contains(Chars.freezed_dart, path)

\* the table res with (lf, lh) added to the buckets of the set into
Increased(res, into, lf, lh) ==
    [b \in Buckets |->
        IF b \in into
        THEN [lines |-> res[b].lines + lf, hit |-> res[b].hit + lh]
        ELSE res[b]]

\* the first layer, in the order of Layers, whose marker occurs in the path
FirstMarkedLayer(path) ==
    LET marked == {k \in 1..(Len(Layers) - 1) : Contains(Marker(Layers[k]), path)}
    IN  IF marked = {} THEN "other"
        ELSE Layers[CHOOSE k \in marked : \A j \in marked : k <= j]

\* C1: in every state of the parse and of what follows it, total.lines is
\* the sum of lines over the seven layer buckets and total.hit the sum of
\* hit over them; generated is in neither sum.
C1_PartitionInvariant ==
    /\ results["total"].lines = LayerSum(results, "lines", Len(Layers))
    /\ results["total"].hit = LayerSum(results, "hit", Len(Layers))

\* parse_lcov has returned a table with generated and hand-written lines
C1_Witness ==
    /\ pc = "render"
    /\ results["generated"].lines > 0
    /\ results["total"].lines > 0
    /\ results["total"].hit > 0

\* C2: an iteration on a block with integer LF and LH records whose path
\* holds '.g.dart' or '.freezed.dart' adds (LF, LH) to generated and leaves
\* total and the seven layer buckets as they were.
C2_GeneratedExclusion ==
    [][ (pc = "body" /\ Countable(file_block) /\ PathIsGenerated(file_block[1]))
        => /\ pc' = "loop"
           /\ results' = Increased(results, {"generated"},
                                   IntValue(FirstLF(file_block)),
                                   IntValue(FirstLH(file_block))) ]_vars

\* the loop holds a generated file of the domain directory, after a
\* hand-written file has been counted
C2_Witness ==
    /\ pc = "body"
    /\ Countable(file_block)
    /\ file_block[1] = Path(<<"domain">>, "freezed_dart")
    /\ IntValue(FirstLF(file_block)) > 0
    /\ results["total"].lines > 0

\* C3: an iteration on a block with integer LF and LH records whose path
\* holds no generated marker adds (LF, LH) to total and to one layer
\* bucket, the first of domain, data, application, presentation, services,
\* core whose marker occurs in the path, or other; every other bucket stays.
C3_LayerClassification ==
    [][ (pc = "body" /\ Countable(file_block) /\ ~PathIsGenerated(file_block[1]))
        => /\ pc' = "loop"
           /\ results' = Increased(results,
                                   {"total", FirstMarkedLayer(file_block[1])},
                                   IntValue(FirstLF(file_block)),
                                   IntValue(FirstLH(file_block))) ]_vars

\* the loop holds a file under data/domain/, '/data/' before '/domain/'
C3_Witness ==
    /\ pc = "body"
    /\ Countable(file_block)
    /\ file_block[1] = Path(<<"data", "domain">>, "dart")
    /\ IntValue(FirstLF(file_block)) > 0
    /\ results["total"].lines > 0

\* the overall percentage of the table is below the overall target
OverallBelowTarget ==
    IF results["total"].lines = 0 THEN TRUE
    ELSE 100 * results["total"].hit < 80 * results["total"].lines

\* C4: the process ends with code 1 exactly when the trace is missing or
\* '--ci' is given and the overall percentage is below 80, and with 0 in
\* every other run.
C4_ExitCodePolicy ==
    exit_code # <<>> =>
        /\ exit_code \in {<<0>>, <<1>>}
        /\ exit_code = <<1>> <=>
              (~exists \/ ("--ci" \in argv /\ OverallBelowTarget))

\* C5: with the trace missing the run ends with code 1 and has not been in
\* the loop, in a renderer or in the gate, whatever the flags.
C5_MissingTraceExits ==
    (~exists /\ pc # "main") =>
        /\ pc = "exited"
        /\ exit_code = <<1>>
        /\ visited = {"main", "exited"}
        /\ results = ZeroResults
        /\ i = 0
        /\ report = NoReport
        /\ ci_message = "none"

\* the run has ended on a missing trace with both flags given
C5_Witness ==
    /\ ~exists
    /\ pc = "exited"
    /\ argv = Flags

\* the status the rule gives hit of lines against target t
RuleHolds(status, hit, lines, t) ==
    /\ status \in {"PASS", "WARN", "FAIL"}
    /\ status = "PASS" <=> 100 * hit >= t * lines
    /\ status = "WARN" <=> ((t - 10) * lines <= 100 * hit /\ 100 * hit < t * lines)
    /\ status = "FAIL" <=> 100 * hit < (t - 10) * lines

\* C6: the text report has a row for every layer with lines > 0 and its
\* status is PASS at or above the layer's target (80 for other), WARN less
\* than 10 below it, FAIL otherwise; so 80.0, 75.0 and 69.9 against 80 are
\* PASS, WARN and FAIL and 8 of 10 against 95 is FAIL.
C6_LayerStatus ==
    /\ report.kind = "text" =>
          \A l \in LayerSet :
              results[l].lines > 0 =>
                  /\ l \in DOMAIN report.rows
                  /\ RuleHolds(report.rows[l].status, results[l].hit,
                               results[l].lines,
                               IF l = "other" THEN 80 ELSE TARGETS[l])
    /\ LayerStatus([num |-> 800, den |-> 10], 80) = "PASS"
    /\ LayerStatus([num |-> 750, den |-> 10], 80) = "WARN"
    /\ LayerStatus([num |-> 699, den |-> 10], 80) = "FAIL"
    /\ LayerStatus(calculate_coverage([lines |-> 10, hit |-> 8]), 95) = "FAIL"

\* the text report shows a WARN row for a layer of two counted blocks
C6_Witness ==
    /\ report.kind = "text"
    /\ \E l \in DOMAIN report.rows :
          /\ report.rows[l].status = "WARN"
          /\ report.rows[l].lines > MaxCount

\* C7 as claimed: the overall status follows the layers' three-way rule
\* against 80.
C7_OverallThreeWay ==
    report.kind = "text" =>
        IF results["total"].lines = 0
        THEN report.status = "FAIL"
        ELSE RuleHolds(report.status, results["total"].hit,
                       results["total"].lines, 80)

\* C7: the overall status is PASS when the overall percentage is at least
\* 80 and FAIL below it; there is no WARN.
C7_OverallTwoWay ==
    report.kind = "text" =>
        /\ report.status \in {"PASS", "FAIL"}
        /\ report.status = "FAIL" <=> OverallBelowTarget

\* the text report shows FAIL for an overall percentage of 70 to 80
C7_Witness ==
    /\ report.kind = "text"
    /\ results["total"].lines > 0
    /\ 70 * results["total"].lines <= 100 * results["total"].hit
    /\ 100 * results["total"].hit < 80 * results["total"].lines
    /\ report.status = "FAIL"

\* C8: an iteration on a block without an LF or without an LH record leaves
\* the table as it was and goes on with the loop; the loop takes no element
\* before the first block, and the table is all zero until it has taken one.
C8_TolerantParsing ==
    [][ /\ (pc = "body" /\ ~(HasLF(file_block) /\ HasLH(file_block)))
            => (pc' = "loop" /\ results' = results /\ exit_code' = <<>>)
        /\ (pc = "loop" /\ pc' = "body") => (i >= 1 /\ results' = results)
        /\ i' <= 1 => results' = ZeroResults ]_vars

\* the loop holds, after a counted block, a block without LF whose LH is
\* not a number
C8_Witness ==
    /\ pc = "body"
    /\ ~HasLF(file_block)
    /\ HasLH(file_block)
    /\ ~IntParses(FirstLH(file_block))
    /\ Contains(Marker("domain"), file_block[1])
    /\ results["total"].lines > 0

\* C9: no run ends by an exception that leaves main.
C9_NoErrorEscapes == pc # "crashed"

\* C10: every bucket has 0 <= hit <= lines and a percentage of 0 to 100.
C10_HitWithinLines ==
    \A b \in Buckets :
        /\ 0 <= results[b].hit
        /\ results[b].hit <= results[b].lines
        /\ calculate_coverage(results[b]).num >= 0
        /\ calculate_coverage(results[b]).num
              <= 100 * calculate_coverage(results[b]).den

====
